---------------------------- MODULE Spec2Model ----------------------------
(***************************************************************************)
(* A model of photos.py: scan a directory into FileInfo records (EXIF      *)
(* date, file date, reverse-geocoded location through a cache), sort them  *)
(* by capture time, fill absent locations from neighbours in time, group   *)
(* them by date and place, and move them into date/place directories.      *)
(*                                                                         *)
(* Conventions.  A Python value that may be None is a sequence of length   *)
(* at most one: None is <<>>, a value v is <<v>>.  A Python str is a       *)
(* sequence of one-character strings.  A datetime is a number of seconds   *)
(* counted from the midnight that starts day 0.  A coordinate is an        *)
(* integer number of 1e-5 degrees, a cache key a pair of integers in 1e-2  *)
(* degrees.                                                                *)
(***************************************************************************)
EXTENDS Integers, Sequences, FiniteSets, TLC

VARIABLES
    pc,          \* position of the run: scan, fix, move, done, aborted (format, formatted)
    dry_run,     \* options.dry_run
    listing,     \* names of only_files not yet visited by the scan loop
    files,       \* the list of FileInfo built so far; after filtering, `processable`
    cache_loc,   \* the module-level dict cache_loc: key -> location (possibly None)
    calls,       \* Geocoder Adapter invocations so far: [key, at], at = clock when issued
    clock,       \* seconds the run has spent blocked in time.sleep
    uncaught,    \* the exception that reached main's handler, if any
    idx,         \* loop index of fix_locations
    resolved,    \* the locations of the sorted list as the scan left them
    groups,      \* move_files' dict: date -> place -> list of file names
    todo,        \* the (date, place) buckets of groups still to be moved, in dict order
    dirs,        \* directories existing under the scanned directory
    fs,          \* where each file of the directory is: name -> path below the directory
    place_name   \* result of get_location_place in the formatter specification

vars == <<pc, dry_run, listing, files, cache_loc, calls, clock, uncaught, idx,
          resolved, groups, todo, dirs, fs, place_name>>

None == <<>>
Some(v) == <<v>>

\* Python truthiness of an optional str: None and '' are false.
TruthyStr(o) == o # None /\ o[1] # <<>>

Min(S) == CHOOSE x \in S : \A y \in S : x <= y

-----------------------------------------------------------------------------
(* Bounds and input sets *)

MaxFiles == 2      \* files in the scanned directory (whole-run specification)
MaxRecords == 3    \* records handed to fix_locations (interpolator specification)
MaxGroupFiles == 3 \* records handed to sort and grouping (grouping specification)

WindowMinutes == 30
SecondsPerMinute == 60
SecondsPerDay == 86400
SleepSeconds == 1

\* 23:30:00, 23:59:59 on day 0; 00:00:00, 00:29:59, 00:30:00 on day 1.
Times == {84600, 86399, 86400, 88199, 88200}

Str_Louvre == <<"L", "o", "u", "v", "r", "e">>
Str_Paris == <<"P", "a", "r", "i", "s">>
Str_Odd == <<"a", "/", "b", ":", "c", ".">>
Str_Unknown == <<"U", "n", "k", "n", "o", "w", "n">>
Str_Rue == <<"5", " ", "R", "u", "e", " ", "X", ",", " ", "P">>
Str_Av == <<"1", "/", "2", " ", "A", "v", ".">>

AddrKeys == {"theme_park", "museum", "beach", "suburb", "village", "town", "city"}

\* A geopy Location: .address is the free-text address, .raw["address"] the mapping.
Location(address, raw) == [address |-> address, raw |-> raw]

-----------------------------------------------------------------------------
(* Place Formatter *)

\* str.replace("/", "-").replace(".", "-").replace(":", "-")
Sanitize(s) == [k \in 1..Len(s) |-> IF s[k] \in {"/", ".", ":"} THEN "-" ELSE s[k]]

find_place_last(addr, place_names) ==
    LET hits == {k \in 1..Len(place_names) : place_names[k] \in DOMAIN addr}
    IN  IF hits = {} THEN None
        ELSE Some(addr[place_names[CHOOSE k \in hits : \A j \in hits : j <= k]])

find_place(addr, place_names) ==
    LET hits == {k \in 1..Len(place_names) : place_names[k] \in DOMAIN addr}
    IN  IF hits = {} THEN None ELSE Some(addr[place_names[Min(hits)]])

get_location_place(location) ==
    IF location # None
    THEN LET addr == location[1].raw
             place == find_place(addr, <<"theme_park", "museum", "beach", "suburb">>)
             city_places ==
                 IF "suburb" \in DOMAIN addr /\ place # Some(addr["suburb"])
                 THEN <<"suburb", "village", "town", "city">>
                 ELSE <<"village", "town", "city">>
             city == find_place(addr, city_places)
         IN  IF ~TruthyStr(place) /\ ~TruthyStr(city)
             THEN location[1].address
             ELSE LET city_str == IF TruthyStr(city)
                                  THEN (IF TruthyStr(place) THEN city[1] \o <<"-">> ELSE city[1])
                                  ELSE <<>>
                      place_str == IF TruthyStr(place) THEN place[1] ELSE <<>>
                  IN  Sanitize(city_str \o place_str)
    ELSE Str_Unknown

-----------------------------------------------------------------------------
(* Coordinates and the Location Cache *)

\* n/d rounded to the nearest integer, ties to even (Python's round), d > 0.
RoundDiv(n, d) ==
    LET q == n \div d
        r == n % d
    IN  IF 2 * r < d THEN q
        ELSE IF 2 * r > d THEN q + 1
        ELSE IF q % 2 = 0 THEN q ELSE q + 1

\* dms is <<<<dn, dd>>, <<mn, md>>, <<sn, sd>>>>; a zero denominator raises.
dms_raises(dms) == \E k \in 1..3 : dms[k][2] = 0

\* The decimal degrees, rounded to 5 places, in units of 1e-5 degree.
get_decimal_from_dms(dms, ref) ==
    LET den == dms[1][2] * dms[2][2] * dms[3][2] * 3600
        num == dms[1][1] * dms[2][2] * dms[3][2] * 3600
               + dms[2][1] * dms[1][2] * dms[3][2] * 60
               + dms[3][1] * dms[1][2] * dms[2][2]
        sign == IF ref \in {"S", "W"} THEN -1 ELSE 1
        whole == num \div den
    IN  sign * (whole * 100000 + RoundDiv((num % den) * 100000, den))

\* exif['GPSInfo'] restricted to the known GPS tags, or None.
get_geotagging(exif) ==
    IF exif # None /\ "GPSInfo" \in DOMAIN exif[1] THEN Some(exif[1]["GPSInfo"]) ELSE None

get_coordinates_raises(geotags) ==
    \/ /\ {"GPSLatitude", "GPSLatitudeRef"} \subseteq DOMAIN geotags
       /\ dms_raises(geotags["GPSLatitude"])
    \/ /\ {"GPSLongitude", "GPSLongitudeRef"} \subseteq DOMAIN geotags
       /\ dms_raises(geotags["GPSLongitude"])

get_coordinates(geotags) ==
    [lat |-> IF {"GPSLatitude", "GPSLatitudeRef"} \subseteq DOMAIN geotags
             THEN Some(get_decimal_from_dms(geotags["GPSLatitude"], geotags["GPSLatitudeRef"]))
             ELSE None,
     lon |-> IF {"GPSLongitude", "GPSLongitudeRef"} \subseteq DOMAIN geotags
             THEN Some(get_decimal_from_dms(geotags["GPSLongitude"], geotags["GPSLongitudeRef"]))
             ELSE None]

\* Python truthiness of an optional float: None and 0.0 are false.
TruthyNum(o) == o # None /\ o[1] # 0

\* round(x, 2) of each axis; the key string "{lat}-{lon}" is determined by the two
\* rounded values and, for a rounded value of zero, by its sign ("-0.0" or "0.0").
create_cache_loc_key(coords) ==
    LET part(v) == <<RoundDiv(v, 1000), RoundDiv(v, 1000) = 0 /\ v < 0>>
    IN  <<part(coords.lat[1]), part(coords.lon[1])>>

\* cache_loc[key] if key in cache_loc else None
find_cache_location(cache, coords) ==
    LET key == create_cache_loc_key(coords)
    IN  IF key \in DOMAIN cache THEN cache[key] ELSE None

save_cache_location(cache, coords, location) ==
    LET key == create_cache_loc_key(coords)
    IN  [k \in DOMAIN cache \cup {key} |-> IF k = key THEN location ELSE cache[k]]

\* The Geocoder Adapter call and the sleep after it.  reply is what the service
\* does with this request: it raises, or it returns a Location or None.
find_geo_location(coords, reply) ==
    [raised |-> reply.raises,
     location |-> IF reply.raises THEN None ELSE reply.result,
     called |-> <<create_cache_loc_key(coords)>>,
     slept |-> IF reply.raises THEN 0 ELSE SleepSeconds]

NoGeo(cache, rez, err) ==
    [rez |-> rez, err |-> err, cache |-> cache, called |-> <<>>, slept |-> 0]

\* Returns the (location, error) pair together with the new cache, the adapter
\* invocations made (their keys) and the seconds slept.
extract_location_from_exif(exif, cache, reply) ==
    LET geotags == get_geotagging(exif)
    IN  IF geotags # None /\ DOMAIN geotags[1] # {}
        THEN IF get_coordinates_raises(geotags[1])
             THEN NoGeo(cache, None, Some("ZeroDivisionError"))
             ELSE LET coords == get_coordinates(geotags[1])
                  IN  IF TruthyNum(coords.lat) /\ TruthyNum(coords.lon)
                      THEN LET cached_location == find_cache_location(cache, coords)
                           IN  IF cached_location # None
                               THEN NoGeo(cache, cached_location, None)
                               ELSE LET g == find_geo_location(coords, reply)
                                    IN  IF g.raised
                                        THEN [rez |-> None, err |-> Some("GeocoderError"),
                                              cache |-> cache, called |-> g.called,
                                              slept |-> g.slept]
                                        ELSE [rez |-> g.location, err |-> None,
                                              cache |-> save_cache_location(cache, coords, g.location),
                                              called |-> g.called, slept |-> g.slept]
                      ELSE NoGeo(cache, None, None)
        ELSE NoGeo(cache, None, None)

-----------------------------------------------------------------------------
(* FileInfo *)

\* Python truthiness of an optional dict: None and {} are false.
TruthyDict(o) == o # None /\ DOMAIN o[1] # {}

\* A file of the directory as the scan meets it:
\*   jpg      the name ends in .jpg or .jpeg (any case)
\*   open_ok  Image.open succeeds
\*   exif     what img._getexif() returns: None, or the tag dict, in which
\*            "DateTime" maps to Some(t) when it parses and to None when it does not
\*   stat     Some(st_mtime), or None when os.stat raises
extract_exif(inp) ==
    IF inp.jpg
    THEN IF ~inp.open_ok
         THEN [raised |-> FALSE, rez |-> None, err |-> Some("UnidentifiedImageError")]
         ELSE IF inp.exif = None
              THEN [raised |-> TRUE, rez |-> None, err |-> Some("AttributeError")]
              ELSE [raised |-> FALSE, rez |-> inp.exif, err |-> None]
    ELSE [raised |-> FALSE, rez |-> None, err |-> None]

extract_date_from_exif(exif) ==
    IF TruthyDict(exif) /\ "DateTime" \in DOMAIN exif[1]
    THEN IF exif[1]["DateTime"] # None
         THEN [rez |-> exif[1]["DateTime"], err |-> None]
         ELSE [rez |-> None, err |-> Some("ValueError")]
    ELSE [rez |-> None, err |-> None]

extract_file_datetime(inp) ==
    IF inp.stat = None
    THEN [rez |-> None, err |-> Some("OSError")]
    ELSE [rez |-> inp.stat, err |-> None]

\* FileInfo.__init__: the record built for one file, with the cache it leaves,
\* the adapter invocations it made and the seconds it slept; raised when an
\* exception leaves the constructor.
FileInfo(name, inp, cache, reply) ==
    LET x == extract_exif(inp)
        d == extract_date_from_exif(x.rez)
        t == extract_file_datetime(inp)
        g == IF TruthyDict(x.rez)
             THEN extract_location_from_exif(x.rez, cache, reply)
             ELSE NoGeo(cache, None, None)
    IN  [raised |-> x.raised,
         info |-> [name |-> name,
                   errors |-> x.err \o d.err \o t.err \o g.err,
                   exif_mod_date |-> d.rez,
                   file_mod_date |-> t.rez,
                   location |-> g.rez],
         cache |-> g.cache,
         called |-> g.called,
         slept |-> g.slept]

has_errors(f) == Len(f.errors) > 0

get_mod_date(f) == IF f.exif_mod_date # None THEN f.exif_mod_date ELSE f.file_mod_date

is_processable(f) == get_mod_date(f) # None

\* strftime("%Y-%m-%d"): the calendar day of the timestamp, as a day number.
format_mod_date(f) == get_mod_date(f)[1] \div SecondsPerDay

-----------------------------------------------------------------------------
(* Location Interpolator *)

\* list.sort(key=get_mod_date): a stable sort, equal keys keep their order.
RECURSIVE sort_by_mod_date(_)
sort_by_mod_date(fl) ==
    IF fl = <<>> THEN <<>>
    ELSE LET f == fl[Len(fl)]
             before == sort_by_mod_date(SubSeq(fl, 1, Len(fl) - 1))
             n == Cardinality({k \in 1..Len(before) :
                                  get_mod_date(before[k])[1] <= get_mod_date(f)[1]})
         IN  SubSeq(before, 1, n) \o <<f>> \o SubSeq(before, n + 1, Len(before))

set_location(fl, i, loc) == [fl EXCEPT ![i].location = loc]

check_and_update_location_le(diff, fl, i, loc) ==
    LET mins == diff \div SecondsPerMinute
    IN  IF mins <= WindowMinutes THEN set_location(fl, i, loc) ELSE fl

\* divmod(diff.total_seconds(), 60)[0] is the floor of the minutes.
check_and_update_location(diff, fl, i, loc) ==
    LET mins == diff \div SecondsPerMinute
    IN  IF mins < WindowMinutes THEN set_location(fl, i, loc) ELSE fl

find_next_with_loc_last(fl, start) ==
    LET located == {x \in start..Len(fl) : fl[x].location # None}
    IN  IF located = {} THEN [date |-> None, loc |-> None]
        ELSE LET x == CHOOSE y \in located : \A z \in located : z <= y
             IN  [date |-> get_mod_date(fl[x]), loc |-> fl[x].location]

\* The first record at or after start that has a location, as (date, location).
find_next_with_loc(fl, start) ==
    LET located == {x \in start..Len(fl) : fl[x].location # None}
    IN  IF located = {} THEN [date |-> None, loc |-> None]
        ELSE [date |-> get_mod_date(fl[Min(located)]), loc |-> fl[Min(located)].location]

find_location_around_forward_first(fl, i) ==
    LET nx == find_next_with_loc(fl, i + 1)
        f1 == IF i < Len(fl) /\ nx.date # None
              THEN check_and_update_location(nx.date[1] - get_mod_date(fl[i])[1], fl, i, nx.loc)
              ELSE fl
    IN  IF f1[i].location = None /\ i > 1
        THEN check_and_update_location(get_mod_date(fl[i])[1] - get_mod_date(fl[i - 1])[1],
                                       f1, i, fl[i - 1].location)
        ELSE f1

\* Indices are 1-based here: the code's i > 0 is i > 1, its i < len(files)-1 is
\* i < Len(fl).
find_location_around(fl, i) ==
    LET f1 == IF i > 1
              THEN check_and_update_location(
                       get_mod_date(fl[i])[1] - get_mod_date(fl[i - 1])[1],
                       fl, i, fl[i - 1].location)
              ELSE fl
    IN  IF f1[i].location = None /\ i < Len(f1)
        THEN LET nx == find_next_with_loc(f1, i + 1)
             IN  IF nx.date # None
                 THEN check_and_update_location(nx.date[1] - get_mod_date(f1[i])[1],
                                                f1, i, nx.loc)
                 ELSE f1
        ELSE f1

-----------------------------------------------------------------------------
(* Grouping and Mover *)

EmptyDict == [k \in {} |-> <<>>]

Put(dict, key, value) ==
    [k \in DOMAIN dict \cup {key} |-> IF k = key THEN value ELSE dict[k]]

RECURSIVE build_groups_prepend(_, _)
build_groups_prepend(fl, g) ==
    IF fl = <<>> THEN g
    ELSE LET f == Head(fl)
             f_date == format_mod_date(f)
             g1 == IF f_date \in DOMAIN g THEN g ELSE Put(g, f_date, EmptyDict)
             f_loc == get_location_place(f.location)
             b1 == IF f_loc \in DOMAIN g1[f_date] THEN g1[f_date]
                   ELSE Put(g1[f_date], f_loc, <<>>)
             b2 == Put(b1, f_loc, <<f.name>> \o b1[f_loc])
         IN  build_groups_prepend(Tail(fl), Put(g1, f_date, b2))

\* The loop that fills groups: date -> place -> list of files, each list in the
\* order of the sorted list.
RECURSIVE build_groups(_, _)
build_groups(fl, g) ==
    IF fl = <<>> THEN g
    ELSE LET f == Head(fl)
             f_date == format_mod_date(f)
             g1 == IF f_date \in DOMAIN g THEN g ELSE Put(g, f_date, EmptyDict)
             f_loc == get_location_place(f.location)
             b1 == IF f_loc \in DOMAIN g1[f_date] THEN g1[f_date]
                   ELSE Put(g1[f_date], f_loc, <<>>)
             b2 == Put(b1, f_loc, Append(b1[f_loc], f.name))
         IN  build_groups(Tail(fl), Put(g1, f_date, b2))

RECURSIVE Distinct(_)
Distinct(s) ==
    IF s = <<>> THEN <<>>
    ELSE LET front == Distinct(SubSeq(s, 1, Len(s) - 1))
             last == s[Len(s)]
         IN  IF \E k \in 1..Len(front) : front[k] = last THEN front ELSE Append(front, last)

RECURSIVE PairsOfDates(_, _)
PairsOfDates(ds, pairs) ==
    IF ds = <<>> THEN <<>>
    ELSE LET OnDate(p) == p[1] = Head(ds)
         IN  SelectSeq(pairs, OnDate) \o PairsOfDates(Tail(ds), pairs)

\* The order in which the nested loops over groups and groups[key_date] meet
\* the buckets: dict order, that is, order of first insertion.
iteration_order(fl) ==
    LET pairs == Distinct([k \in 1..Len(fl) |->
                     <<format_mod_date(fl[k]), get_location_place(fl[k].location)>>])
        dates == Distinct([k \in 1..Len(pairs) |-> pairs[k][1]])
    IN  PairsOfDates(dates, pairs)

\* os.path.join(sub_dir_date, key_loc) as path components: a "/" inside key_loc
\* separates components.
RECURSIVE SplitPath(_)
SplitPath(s) ==
    LET slashes == {k \in 1..Len(s) : s[k] = "/"}
    IN  IF slashes = {} THEN <<s>>
        ELSE <<SubSeq(s, 1, Min(slashes) - 1)>>
             \o SplitPath(SubSeq(s, Min(slashes) + 1, Len(s)))

Parent(path) == SubSeq(path, 1, Len(path) - 1)

move_bucket_mkdir_always(dry, d, fsys, names, key_date, key_loc) ==
    LET sub_dir_date == <<key_date>>
        d1 == IF sub_dir_date \notin d THEN d \cup {sub_dir_date} ELSE d
        sub_dir_loc == sub_dir_date \o SplitPath(key_loc)
        must_make == ~dry /\ sub_dir_loc \notin d1
    IN  IF must_make /\ Parent(sub_dir_loc) \notin (d1 \cup {<<>>})
        THEN [raised |-> TRUE, dirs |-> d1, fs |-> fsys]
        ELSE [raised |-> FALSE,
              dirs |-> IF must_make THEN d1 \cup {sub_dir_loc} ELSE d1,
              fs |-> IF dry THEN fsys
                     ELSE [n \in DOMAIN fsys |->
                              IF \E k \in 1..Len(names) : names[k] = n
                              THEN sub_dir_loc ELSE fsys[n]]]

\* One (key_date, key_loc) bucket of the nested loops: the date directory is made
\* when absent, then the place directory, then every file of the bucket is moved.
\* os.mkdir raises FileNotFoundError when the parent directory does not exist.
move_bucket(dry, d, fsys, names, key_date, key_loc) ==
    LET sub_dir_date == <<key_date>>
        d1 == IF ~dry /\ sub_dir_date \notin d THEN d \cup {sub_dir_date} ELSE d
        sub_dir_loc == sub_dir_date \o SplitPath(key_loc)
        must_make == ~dry /\ sub_dir_loc \notin d1
    IN  IF must_make /\ Parent(sub_dir_loc) \notin (d1 \cup {<<>>})
        THEN [raised |-> TRUE, dirs |-> d1, fs |-> fsys]
        ELSE [raised |-> FALSE,
              dirs |-> IF must_make THEN d1 \cup {sub_dir_loc} ELSE d1,
              fs |-> IF dry THEN fsys
                     ELSE [n \in DOMAIN fsys |->
                              IF \E k \in 1..Len(names) : names[k] = n
                              THEN sub_dir_loc ELSE fsys[n]]]

-----------------------------------------------------------------------------
(* Inputs *)

PlaceLouvre == Location(Str_Rue, [k \in {"museum", "city"} |->
                                     IF k = "museum" THEN Str_Louvre ELSE Str_Paris])
PlaceParis == Location(Str_Rue, [k \in {"city"} |-> Str_Paris])
PlaceAddressOnly == Location(Str_Av, EmptyDict)

\* What the geocoding service may do with a request.
Replies(places) ==
    {[raises |-> TRUE, result |-> None], [raises |-> FALSE, result |-> None]}
    \cup {[raises |-> FALSE, result |-> Some(p)] : p \in places}

Dms(d, m, s) == <<<<d, 1>>, <<m, 1>>, <<s, 1>>>>

\* 47.12306 and 47.12389 (one cache cell), 0.0, and a zero denominator.
Latitudes == {[dms |-> Dms(47, 7, 23), ref |-> "N"], [dms |-> Dms(47, 7, 26), ref |-> "N"],
              [dms |-> Dms(0, 0, 0), ref |-> "S"],
              [dms |-> <<<<47, 1>>, <<7, 0>>, <<23, 1>>>>, ref |-> "N"]}
\* 19.45611
Longitudes == {[dms |-> Dms(19, 27, 22), ref |-> "E"]}

GeoTags(lat, lon) ==
    [k \in (IF lat = None THEN {} ELSE {"GPSLatitude", "GPSLatitudeRef"})
           \cup (IF lon = None THEN {} ELSE {"GPSLongitude", "GPSLongitudeRef"}) |->
        CASE k = "GPSLatitude" -> lat[1].dms
          [] k = "GPSLatitudeRef" -> lat[1].ref
          [] k = "GPSLongitude" -> lon[1].dms
          [] k = "GPSLongitudeRef" -> lon[1].ref]

Opt(S) == {None} \cup {Some(v) : v \in S}

ExifDict(dt, gps) ==
    [k \in (IF dt = None THEN {} ELSE {"DateTime"})
           \cup (IF gps = None THEN {} ELSE {"GPSInfo"}) |->
        IF k = "DateTime" THEN dt[1] ELSE gps[1]]

ExifTimes == {86399}
FileTimes == {86400}

FileInputs ==
    LET stats == Opt(FileTimes)
        tags == {GeoTags(lat, lon) : lat \in Opt(Latitudes), lon \in Opt(Longitudes)}
        exifs == {ExifDict(dt, gps) : dt \in Opt(Opt(ExifTimes)), gps \in Opt(tags)}
    IN  {[jpg |-> FALSE, open_ok |-> TRUE, exif |-> None, stat |-> s] : s \in stats}
        \cup {[jpg |-> TRUE, open_ok |-> FALSE, exif |-> None, stat |-> s] : s \in stats}
        \cup {[jpg |-> TRUE, open_ok |-> TRUE, exif |-> e, stat |-> s] :
                  e \in Opt(exifs), s \in stats}

\* The replies that matter for a file: the service is only asked, and so only
\* answers, when the constructor reaches the adapter.
RepliesFor(inp, cache) ==
    LET silent == [raises |-> TRUE, result |-> None]
    IN  IF FileInfo(0, inp, cache, silent).called = <<>> THEN {silent}
        ELSE Replies({PlaceLouvre, PlaceAddressOnly})

-----------------------------------------------------------------------------
(* The run *)

InitCommon ==
    /\ cache_loc = EmptyDict
    /\ calls = <<>>
    /\ clock = 0
    /\ uncaught = None
    /\ idx = 0
    /\ resolved = <<>>
    /\ groups = EmptyDict
    /\ todo = <<>>
    /\ place_name = None

\* A directory of at most MaxFiles files, no FileInfo built yet; the date directory
\* of day 1 may be there already.
Init ==
    /\ InitCommon
    /\ dry_run \in BOOLEAN
    /\ pc = "scan"
    /\ \E n \in 0..MaxFiles : listing = 1..n
    /\ files = <<>>
    /\ dirs \in {{}, {<<1>>}}
    /\ fs = [n \in listing |-> <<>>]

\* One iteration of the scan loop of retrieve_file_info: the FileInfo of the next
\* file of the listing (the files are numbered in the order os.listdir gives
\* them).  An exception leaving the constructor ends retrieve_file_info and is
\* printed by main.
ScanFile ==
    /\ pc = "scan"
    /\ listing # {}
    /\ \E inp \in FileInputs : \E reply \in RepliesFor(inp, cache_loc) :
          LET name == Min(listing)
              r == FileInfo(name, inp, cache_loc, reply)
          IN  IF r.raised
              THEN /\ pc' = "aborted"
                   /\ uncaught' = Some("AttributeError")
                   /\ UNCHANGED <<listing, files, cache_loc, calls, clock>>
              ELSE /\ listing' = listing \ {name}
                   /\ files' = Append(files, r.info)
                   /\ cache_loc' = r.cache
                   /\ calls' = calls \o [k \in 1..Len(r.called) |->
                                            [key |-> r.called[k], at |-> clock]]
                   /\ clock' = clock + r.slept
                   /\ UNCHANGED <<pc, uncaught>>
    /\ UNCHANGED <<dry_run, idx, resolved, groups, todo, dirs, fs, place_name>>

\* The end of the scan loop: the summary, the filter of the processable records
\* and the sort that opens fix_locations.
Prepare ==
    /\ pc = "scan"
    /\ listing = {}
    /\ LET processable == SelectSeq(files, is_processable)
       IN  /\ files' = sort_by_mod_date(processable)
           /\ resolved' = [k \in 1..Len(processable) |-> files'[k].location]
    /\ idx' = 1
    /\ pc' = "fix"
    /\ UNCHANGED <<dry_run, listing, cache_loc, calls, clock, uncaught, groups, todo,
                   dirs, fs, place_name>>

\* One iteration of the loop of fix_locations.
FixStep ==
    /\ pc = "fix"
    /\ idx <= Len(files)
    /\ files' = IF files[idx].location = None THEN find_location_around(files, idx)
                ELSE files
    /\ idx' = idx + 1
    /\ UNCHANGED <<pc, dry_run, listing, cache_loc, calls, clock, uncaught, resolved,
                   groups, todo, dirs, fs, place_name>>

\* fix_locations returns; options.force is always true, so move_files runs and
\* builds its groups.
GroupFiles ==
    /\ pc = "fix"
    /\ idx > Len(files)
    /\ groups' = build_groups(files, EmptyDict)
    /\ todo' = iteration_order(files)
    /\ pc' = "move"
    /\ UNCHANGED <<dry_run, listing, files, cache_loc, calls, clock, uncaught, idx,
                   resolved, dirs, fs, place_name>>

\* One bucket of the nested loops of move_files.
MoveBucket ==
    /\ pc = "move"
    /\ todo # <<>>
    /\ LET key_date == Head(todo)[1]
           key_loc == Head(todo)[2]
           r == move_bucket(dry_run, dirs, fs, groups[key_date][key_loc], key_date, key_loc)
       IN  /\ dirs' = r.dirs
           /\ fs' = r.fs
           /\ IF r.raised
              THEN /\ pc' = "aborted"
                   /\ uncaught' = Some("FileNotFoundError")
                   /\ todo' = todo
              ELSE /\ todo' = Tail(todo)
                   /\ UNCHANGED <<pc, uncaught>>
    /\ UNCHANGED <<dry_run, listing, files, cache_loc, calls, clock, idx, resolved,
                   groups, place_name>>

\* move_files and retrieve_file_info return; main prints "Finished".
Finish ==
    /\ pc = "move"
    /\ todo = <<>>
    /\ pc' = "done"
    /\ UNCHANGED <<dry_run, listing, files, cache_loc, calls, clock, uncaught, idx,
                   resolved, groups, todo, dirs, fs, place_name>>

Next == ScanFile \/ Prepare \/ FixStep \/ GroupFiles \/ MoveBucket \/ Finish

Spec == Init /\ [][Next]_vars

-----------------------------------------------------------------------------
(* The interpolator on its own: any list of records the scan can leave, then   *)
(* the sort and the loop of fix_locations.  The cache and the adapter log play *)
(* no part in these steps and start empty.                                     *)

\* A record as the scan leaves it for a file without an EXIF date: the capture
\* time is the file's modification time.
Record(name, t, loc) ==
    [name |-> name, errors |-> <<>>, exif_mod_date |-> None,
     file_mod_date |-> Some(t), location |-> loc]

InitScanned(n) ==
    /\ InitCommon
    /\ pc = "scan"
    /\ listing = {}
    /\ dirs = {}
    /\ fs = [k \in 1..n |-> <<>>]

InitFix ==
    /\ dry_run = FALSE
    /\ \E n \in 0..MaxRecords :
          /\ InitScanned(n)
          /\ \E t \in [1..n -> Times], l \in [1..n -> Opt({PlaceLouvre, PlaceParis})] :
                files = [k \in 1..n |-> Record(k, t[k], l[k])]

NextFix == Prepare \/ FixStep

SpecFix == InitFix /\ [][NextFix]_vars

-----------------------------------------------------------------------------
(* Sort and grouping on their own: the same records met in every scan order.   *)

\* 23:59:59 on day 0; 00:00:00 and 00:00:01 on day 1.
GroupTimes == {86399, 86400, 86401}

InitGroup ==
    /\ dry_run = TRUE
    /\ \E n \in 0..MaxGroupFiles :
          /\ InitScanned(n)
          /\ \E order \in Permutations(1..n), t \in [1..n -> GroupTimes],
                l \in [1..n -> Opt({PlaceLouvre})] :
                files = [k \in 1..n |-> Record(order[k], t[order[k]], l[order[k]])]

NextGroup == Prepare \/ FixStep \/ GroupFiles

SpecGroup == InitGroup /\ [][NextGroup]_vars

-----------------------------------------------------------------------------
(* The Place Formatter on its own: every address mapping over the seven keys.  *)

AddressValues == {Str_Louvre, Str_Paris, Str_Odd}

AllLocations ==
    {Location(a, raw) : a \in {Str_Rue, Str_Av},
                        raw \in UNION {[D -> AddressValues] : D \in SUBSET AddrKeys}}

InitPlace ==
    /\ InitCommon
    /\ dry_run = TRUE
    /\ pc = "format"
    /\ listing = {}
    /\ dirs = {}
    /\ fs = [k \in 1..1 |-> <<>>]
    /\ \E loc \in Opt(AllLocations) : files = <<Record(1, 86400, loc)>>

\* f.get_location_place() for the record.
FormatPlace ==
    /\ pc = "format"
    /\ place_name' = Some(get_location_place(files[1].location))
    /\ pc' = "formatted"
    /\ UNCHANGED <<dry_run, listing, files, cache_loc, calls, clock, uncaught, idx,
                   resolved, groups, todo, dirs, fs>>

NextPlace == FormatPlace

SpecPlace == InitPlace /\ [][NextPlace]_vars

-----------------------------------------------------------------------------
(* Properties of the scan (Spec) *)

\* C1: no error raised while a file's embedded metadata is extracted (opening
\* the image, reading its EXIF block) aborts the run: the scan never ends in
\* main's handler with the error of a file's EXIF read.
C1_MetadataErrorNeverAborts ==
    ~(pc = "aborted" /\ uncaught = Some("AttributeError"))

\* C2: the Geocoder Adapter is invoked at most once per rounded-coordinate cache
\* key, whatever the adapter answers (a place, an empty result, an error).
C2_AtMostOneCallPerKey ==
    \A a, b \in 1..Len(calls) : a # b => calls[a].key # calls[b].key

\* C7: any two successive invocations of the Geocoder Adapter are separated by
\* a blocking wait of at least one second.
C7_CallsOneSecondApart ==
    \A k \in 1..(Len(calls) - 1) : calls[k + 1].at - calls[k].at >= SleepSeconds

\* C8: in dry-run mode no step of the run creates a directory or moves a file.
C8_DryRunMutatesNothing ==
    [][dry_run => (dirs' = dirs /\ fs' = fs)]_vars

\* A dry run that has finished after grouping located and unlocated files into
\* at least two buckets, none of which was created or filled.
C8_Witness ==
    /\ pc = "done"
    /\ dry_run
    /\ Cardinality({<<format_mod_date(files[k]), get_location_place(files[k].location)>> :
                       k \in 1..Len(files)}) >= 2
    /\ \A n \in DOMAIN fs : fs[n] = <<>>
    /\ dirs = {}

-----------------------------------------------------------------------------
(* Properties of the interpolator (SpecFix) *)

Window == WindowMinutes * SecondsPerMinute

When(f) == get_mod_date(f)[1]

\* The step of fix_locations that visits record i, which has no location.
Visits(i) ==
    /\ pc = "fix"
    /\ i = idx
    /\ i <= Len(files)
    /\ idx' = idx + 1
    /\ files[i].location = None

HasPredecessor(i) == i > 1 /\ files[i - 1].location # None

LaterLocated(i) == {j \in (i + 1)..Len(files) : files[j].location # None}

\* C3: a record without location inherits the location of its located immediate
\* predecessor when the capture times differ by strictly less than 30 minutes and
\* does not inherit from it at 30 minutes or more; the forward neighbour found by
\* the forward scan is subject to the same strict bound.
C3_WindowBoundary ==
    [][\A i \in 1..Len(files) : Visits(i) =>
          LET back == When(files[i]) - When(files[i - 1])
              later == LaterLocated(i)
              j == Min(later)
              forward == When(files[j]) - When(files[i])
              from_forward == IF later # {} /\ forward < Window
                              THEN files[j].location ELSE None
          IN  /\ HasPredecessor(i) /\ back < Window
                    => files'[i].location = files[i - 1].location
              /\ HasPredecessor(i) /\ back >= Window
                    => files'[i].location = from_forward
              /\ ~HasPredecessor(i) => files'[i].location = from_forward
       ]_vars

\* The interpolator is through; one record took the location of its predecessor
\* 29 minutes 59 seconds before it, another stayed without location exactly 30
\* minutes after a predecessor that holds one.
C3_Witness ==
    /\ pc = "fix"
    /\ idx > Len(files)
    /\ \E i, k \in 2..Len(files) :
          /\ resolved[i] = None
          /\ resolved[i - 1] # None
          /\ When(files[i]) - When(files[i - 1]) = Window - 1
          /\ files[i].location = resolved[i - 1]
          /\ resolved[k] = None
          /\ files[k - 1].location # None
          /\ When(files[k]) - When(files[k - 1]) = Window
          /\ files[k].location = None

\* C4: a record without location that has a located predecessor within the
\* window and a located successor within the window gets the predecessor's
\* location.
C4_BackwardPrecedence ==
    [][\A i \in 1..Len(files) :
          (/\ Visits(i)
           /\ HasPredecessor(i)
           /\ When(files[i]) - When(files[i - 1]) < Window
           /\ LaterLocated(i) # {}
           /\ When(files[Min(LaterLocated(i))]) - When(files[i]) < Window)
          => files'[i].location = files[i - 1].location
       ]_vars

\* Record i was just visited between a predecessor and a successor that are both
\* within the window and hold different locations; it holds the predecessor's.
C4_Witness ==
    /\ pc = "fix"
    /\ \E i \in 2..(Len(files) - 1) :
          /\ idx = i + 1
          /\ resolved[i] = None
          /\ resolved[i - 1] # None
          /\ resolved[i + 1] # None
          /\ resolved[i - 1] # resolved[i + 1]
          /\ When(files[i]) - When(files[i - 1]) < Window
          /\ When(files[i + 1]) - When(files[i]) < Window
          /\ files[i].location = resolved[i - 1]

InterpolatorDone == pc = "fix" /\ idx > Len(files)

Apart(i, j) == IF When(files[i]) >= When(files[j])
               THEN When(files[i]) - When(files[j])
               ELSE When(files[j]) - When(files[i])

\* C10 as stated: after the interpolator, every filled location is the location
\* of a record that had a resolved location of its own less than 30 minutes away,
\* and a record with no such record within 30 minutes stays without location.
C10_BorrowedFromResolvedWithinWindow ==
    InterpolatorDone =>
        \A i \in 1..Len(files) : resolved[i] = None =>
            LET near == {j \in 1..Len(files) : resolved[j] # None /\ Apart(i, j) < Window}
            IN  /\ files[i].location # None
                      => \E j \in near : files[i].location = resolved[j]
                /\ near = {} => files[i].location = None

\* Every consecutive pair of records between i and j is less than the window apart.
Linked(i, j) ==
    \A k \in 1..(Len(files) - 1) :
        (k >= i \/ k >= j) /\ (k < i \/ k < j)
            => When(files[k + 1]) - When(files[k]) < Window

\* C10, amended: after the interpolator, every filled location is held by a
\* record less than 30 minutes away (the immediate predecessor, whose location
\* may itself be borrowed, or a later record with a location of its own), and it
\* is the resolved location of a record reached through records each less than 30
\* minutes from the next; a record stays without location exactly when its
\* predecessor holds none or is 30 minutes or more before it, and the first later
\* record with a location of its own is missing or 30 minutes or more after it.
C10_BorrowedThroughChain ==
    InterpolatorDone =>
        \A i \in 1..Len(files) : resolved[i] = None =>
            LET later == {j \in (i + 1)..Len(files) : resolved[j] # None}
                back_ok == /\ i > 1
                           /\ files[i - 1].location # None
                           /\ When(files[i]) - When(files[i - 1]) < Window
                forward_ok == /\ later # {}
                              /\ When(files[Min(later)]) - When(files[i]) < Window
            IN  /\ files[i].location # None <=> (back_ok \/ forward_ok)
                /\ files[i].location # None =>
                      /\ \E j \in 1..Len(files) :
                            /\ j = i - 1 \/ j \in later
                            /\ files[j].location = files[i].location
                            /\ Apart(i, j) < Window
                      /\ \E j \in 1..Len(files) :
                            /\ resolved[j] = files[i].location
                            /\ Linked(i, j)

\* Three records 29 minutes 59 seconds apart, the first with a resolved location:
\* the third holds it although the first is more than 30 minutes before it.
C10_Witness ==
    /\ InterpolatorDone
    /\ \E i \in 3..Len(files) :
          /\ resolved[i] = None
          /\ resolved[i - 1] = None
          /\ resolved[i - 2] # None
          /\ files[i].location = resolved[i - 2]
          /\ Apart(i, i - 2) >= Window
          /\ \A j \in 1..Len(files) : resolved[j] # None => Apart(i, j) >= Window

-----------------------------------------------------------------------------
(* Properties of sort and grouping (SpecGroup) *)

Grouped == pc = "move"

Bucket(d, p) ==
    {k \in 1..Len(files) :
        format_mod_date(files[k]) = d /\ get_location_place(files[k].location) = p}

\* The names of a set of records of the list, ordered by capture time and, at
\* equal capture time, by name: an order that no scan order enters.
ByTimeThenName(S) ==
    CHOOSE q \in [1..Cardinality(S) -> S] :
        /\ \A a, b \in 1..Cardinality(S) : a # b => q[a] # q[b]
        /\ \A a, b \in 1..Cardinality(S) : a < b =>
              \/ When(files[q[a]]) < When(files[q[b]])
              \/ /\ When(files[q[a]]) = When(files[q[b]])
                 /\ files[q[a]].name < files[q[b]].name

SameBuckets ==
    /\ DOMAIN groups = {format_mod_date(files[k]) : k \in 1..Len(files)}
    /\ \A d \in DOMAIN groups :
          DOMAIN groups[d] = {get_location_place(files[k].location) :
                                 k \in {x \in 1..Len(files) : format_mod_date(files[x]) = d}}

\* C9 as stated: the date -> PlaceName -> ordered list structure is a function
\* of the set of records alone, the same for every scan order.
C9_SameListsForEveryScanOrder ==
    Grouped =>
        /\ SameBuckets
        /\ \A d \in DOMAIN groups : \A p \in DOMAIN groups[d] :
              LET q == ByTimeThenName(Bucket(d, p))
              IN  groups[d][p] = [k \in 1..Len(q) |-> files[q[k]].name]

\* C9, amended: for every scan order the structure holds the same dates, the
\* same places under each date and the same files in each bucket, each file once,
\* every list in ascending order of capture time (so the lists are the same when
\* the capture times within a bucket differ; files with equal capture time keep
\* their scan order); and grouping changes no record.
C9_SameBucketsForEveryScanOrder ==
    [][(pc = "fix" /\ pc' = "move") =>
          /\ files' = files
          /\ SameBuckets'
          /\ \A d \in DOMAIN groups' : \A p \in DOMAIN groups'[d] :
                LET list == groups'[d][p]
                    at(n) == When(files[CHOOSE k \in 1..Len(files) : files[k].name = n])
                IN  /\ {list[k] : k \in 1..Len(list)} = {files[k].name : k \in Bucket(d, p)}
                    /\ Len(list) = Cardinality(Bucket(d, p))
                    /\ \A a, b \in 1..Len(list) : a < b => at(list[a]) <= at(list[b])
       ]_vars

\* Grouping is done; the scan met file 2 before file 1, both have the same
\* capture time and place, and a third file of the same bucket was captured before.
C9_Witness ==
    /\ Grouped
    /\ \E d \in DOMAIN groups : \E p \in DOMAIN groups[d] :
          /\ Len(groups[d][p]) = 3
          /\ groups[d][p][2] = 2
          /\ groups[d][p][3] = 1
          /\ \E a, b, c \in 1..Len(files) :
                /\ files[a].name = groups[d][p][1]
                /\ files[b].name = 2
                /\ files[c].name = 1
                /\ When(files[a]) < When(files[b])
                /\ When(files[b]) = When(files[c])

-----------------------------------------------------------------------------
(* Properties of the Place Formatter (SpecPlace) *)

Formatted == pc = "formatted"

Has(addr, key) == key \in DOMAIN addr

\* The value of the first of the keys that the address has.
FirstOf(addr, keys) ==
    IF keys = <<>> \/ \A k \in 1..Len(keys) : ~Has(addr, keys[k]) THEN None
    ELSE Some(addr[keys[Min({k \in 1..Len(keys) : Has(addr, keys[k])})]])

StatedPlace(addr) == FirstOf(addr, <<"theme_park", "museum", "beach", "suburb">>)

StatedCity(addr) ==
    IF Has(addr, "suburb") /\ StatedPlace(addr) # Some(addr["suburb"])
    THEN Some(addr["suburb"])
    ELSE FirstOf(addr, <<"village", "town", "city">>)

StatedName(addr) ==
    IF StatedPlace(addr) # None /\ StatedCity(addr) # None
    THEN StatedCity(addr)[1] \o <<"-">> \o StatedPlace(addr)[1]
    ELSE IF StatedPlace(addr) # None THEN StatedPlace(addr)[1] ELSE StatedCity(addr)[1]

Dashed(str) ==
    [k \in 1..Len(str) |-> IF str[k] = "/" \/ str[k] = "." \/ str[k] = ":" THEN "-" ELSE str[k]]

\* C5: with neither an interesting place nor a city component in the address, the
\* PlaceName is the free-text address with every '/', '.' and ':' replaced by '-'.
C5_FallbackAddressSanitized ==
    (/\ Formatted
     /\ files[1].location # None
     /\ StatedPlace(files[1].location[1].raw) = None
     /\ StatedCity(files[1].location[1].raw) = None)
    => place_name = Some(Dashed(files[1].location[1].address))

\* C6 as stated: the PlaceName is city-place, or the one of the two that is
\* found, by the stated priorities; "Unknown" without location.
C6_PlacePriority ==
    Formatted =>
        IF files[1].location = None THEN place_name = Some(Str_Unknown)
        ELSE LET addr == files[1].location[1].raw
             IN  StatedPlace(addr) # None \/ StatedCity(addr) # None
                     => place_name = Some(StatedName(addr))

\* C6, amended: the PlaceName is that string with every '/', '.' and ':'
\* replaced by '-'.
C6_PlacePrioritySanitized ==
    Formatted =>
        IF files[1].location = None THEN place_name = Some(Str_Unknown)
        ELSE LET addr == files[1].location[1].raw
             IN  StatedPlace(addr) # None \/ StatedCity(addr) # None
                     => place_name = Some(Dashed(StatedName(addr)))

\* A museum with a suburb of another name and a city: the suburb serves as the
\* city, and the characters of its name are replaced.
C6_Witness ==
    /\ Formatted
    /\ files[1].location # None
    /\ LET addr == files[1].location[1].raw
       IN  /\ DOMAIN addr = {"museum", "suburb", "city"}
           /\ addr["museum"] = Str_Louvre
           /\ addr["suburb"] = Str_Odd
           /\ addr["city"] = Str_Paris
    /\ place_name = Some(<<"a", "-", "b", "-", "c", "-", "-", "L", "o", "u", "v", "r", "e">>)

=============================================================================
